---- MODULE Spec2Model ----
(***************************************************************************)
(* Model of the procedural keycap generator (Blender add-on).              *)
(*                                                                         *)
(* KeycapGenerator.create_keycap (src/geometry.py) is modelled statement   *)
(* block by statement block: the program counter pc names the block that   *)
(* runs next.  Lengths are integers in units of 1/400 mm, so that every    *)
(* coordinate the code computes (halves of sums of the tabulated           *)
(* millimetre values) is represented exactly.  Literals are written in     *)
(* thousandths of a millimetre and converted with Mm3.                     *)
(***************************************************************************)
EXTENDS Integers, Sequences, FiniteSets, TLC

VARIABLES
    props,      \* scene.keycap_props (KeycapProperties)
    objects,    \* bpy.data.objects: object name -> object
    active,     \* bpy.context.view_layer.objects.active (a name, or NoObject)
    pc,         \* position inside create_keycap / _add_cherry_stem
    args,       \* the arguments of the running create_keycap call
    obj,        \* local obj: name of the keycap object under construction
    dims,       \* locals base_width, top_width, front_taper, keycap_height
    bm,         \* the bmesh under construction
    i,          \* loop index of the running for-loop
    stem,       \* locals of _add_cherry_stem (names of the helper objects)
    raised,     \* the exception that ended the call, or NoError
    caller,     \* the handler that made the call, and the objects it found
    units,      \* scene.unit_settings and the viewport grid scale
    ops,        \* number of handlers run so far
    result,     \* what the last Bake returned, and which handler it was
    generated   \* number of Generate operations performed

vars == <<props, objects, active, pc, args, obj, dims, bm, i, stem, raised,
          caller, units, ops, result, generated>>

----------------------------------------------------------------------------
(* Units *)

\* thousandths of a millimetre -> model units (1/400 mm)
Mm3(t) == (t * 2) \div 5

Abs(x) == IF x < 0 THEN -x ELSE x

RECURSIVE GCD(_, _)
GCD(a, b) == IF b = 0 THEN a ELSE GCD(b, a % b)

\* a/b < c/d for a, c >= 0 and b, d > 0, by comparing continued fractions
\* (no product is formed, so the comparison stays inside the integer range)
RECURSIVE FracLess(_, _, _, _)
FracLess(a, b, c, d) ==
    LET qa == a \div b
        qc == c \div d
        ra == a % b
        rc == c % d
    IN  IF qa # qc THEN qa < qc
        ELSE IF rc = 0 THEN FALSE
        ELSE IF ra = 0 THEN TRUE
        ELSE FracLess(d, rc, b, ra)

NoObject == "<none>"
NoError == "<no error>"

----------------------------------------------------------------------------
(* KeycapProperties: the enumerations and their conversions *)

ProfileItems == {"CHERRY", "OEM", "SA"}
WidthItems == {"1", "1.25", "1.5", "1.75", "2", "2.25", "2.75", "6", "6.25", "7"}
RowItems == {"1", "2", "3", "4"}
StemItems == {"CHERRY_MX", "None"}

\* float(props.width), in hundredths of a unit
WidthFloat(s) ==
    CASE s = "1"    -> 100
      [] s = "1.25" -> 125
      [] s = "1.5"  -> 150
      [] s = "1.75" -> 175
      [] s = "2"    -> 200
      [] s = "2.25" -> 225
      [] s = "2.75" -> 275
      [] s = "6"    -> 600
      [] s = "6.25" -> 625
      [] s = "7"    -> 700

\* int(props.profile_row)
RowInt(s) ==
    CASE s = "1" -> 1
      [] s = "2" -> 2
      [] s = "3" -> 3
      [] s = "4" -> 4

DefaultProps ==
    [ profile_type   |-> "CHERRY",
      width          |-> "1",
      profile_row    |-> "3",
      bevel_vertical |-> Mm3(1500),
      stem_type      |-> "CHERRY_MX" ]

----------------------------------------------------------------------------
(* Arguments a caller can pass to create_keycap *)

\* widths: every enumerated width, and one width below 1U
ArgWidths == { WidthFloat(s) : s \in WidthItems } \cup {25}
\* profile types: the enumerated ones and one that is not
ArgProfiles == ProfileItems \cup {"DSA"}
\* rows: the enumerated ones and two that are not
ArgRows == { RowInt(s) : s \in RowItems } \cup {0, 9}
\* bevel radius: the property's default and another value of its range
ArgBevels == { Mm3(1500), Mm3(500) }
\* stem types: the enumerated ones and one that is not
ArgStems == StemItems \cup {"ALPS"}

----------------------------------------------------------------------------
(* Profile table (create_keycap, lines 49-70) *)

wall_thickness == Mm3(910)
base_height == Mm3(18000)

TopWidthDelta(profile_type) ==
    CASE profile_type = "CHERRY" -> Mm3(5500)
      [] profile_type = "OEM"    -> Mm3(3000)
      [] profile_type = "SA"     -> Mm3(2500)

FrontTaper(profile_type) ==
    CASE profile_type = "CHERRY" -> Mm3(3400)
      [] profile_type = "OEM"    -> Mm3(3000)
      [] profile_type = "SA"     -> Mm3(2500)

row_heights(profile_type) ==
    CASE profile_type = "CHERRY" ->
            (1 :> Mm3(11500) @@ 2 :> Mm3(9500) @@ 3 :> Mm3(8500) @@ 4 :> Mm3(9500))
      [] profile_type = "OEM" ->
            (1 :> Mm3(12500) @@ 2 :> Mm3(11000) @@ 3 :> Mm3(9500) @@ 4 :> Mm3(10500))
      [] profile_type = "SA" ->
            (1 :> Mm3(14890) @@ 2 :> Mm3(13490) @@ 3 :> Mm3(12925) @@ 4 :> Mm3(13490))

\* variant: an unknown row falls back to row 1
RowHeightGet_FirstRow(rh, profile_row) ==
    IF profile_row \in DOMAIN rh THEN rh[profile_row] ELSE rh[1]

\* row_heights.get(profile_row, row_heights[3])
RowHeightGet(rh, profile_row) ==
    IF profile_row \in DOMAIN rh THEN rh[profile_row] ELSE rh[3]

\* variant: one unit taken as 1.8 mm
BaseWidth_Tenth(width) == (width * Mm3(1800)) \div 100

\* width * 18.0, width in hundredths of a unit
BaseWidth(width) == (width * Mm3(18000)) \div 100

----------------------------------------------------------------------------
(* bmesh *)

\* vertex indices, in creation order
base_outer(k) == k + 1          \* k in 0..3
top_outer(k)  == k + 5
base_inner(k) == k + 9
top_inner(k)  == k + 13

EmptyBMesh ==
    [ verts  |-> << >>,         \* sequence of <<x, y, z>>
      faces  |-> << >>,         \* sequence of vertex-index cycles
      weight |-> << >>,         \* edge -> bevel_weight_edge, in tenths (sparse)
      select |-> {} ]           \* edges with select = True

\* the edges of a face: consecutive vertices of its cycle
FaceEdges(f) == { {f[k], f[(k % Len(f)) + 1]} : k \in 1..Len(f) }

\* bm.edges: faces.new creates the edges of the face that do not exist yet
MeshEdges(m) == UNION { FaceEdges(m.faces[k]) : k \in 1..Len(m.faces) }

\* e.link_faces, as face indices
LinkFaces(m, e) == { k \in 1..Len(m.faces) : e \in FaceEdges(m.faces[k]) }

\* v.link_edges
LinkEdges(m, v) == { e \in MeshEdges(m) : v \in e }

\* edge[bevel_weight_layer]; an edge never written reads 0
WeightOf(m, e) == IF e \in DOMAIN m.weight THEN m.weight[e] ELSE 0

\* edge[bevel_weight_layer] = w
SetWeight(weight, e, w) ==
    [ x \in (DOMAIN weight) \cup {e} |-> IF x = e THEN w ELSE weight[x] ]

\* bm.faces.new(cycle)
FacesNew(m, cycle) == [ m EXCEPT !.faces = Append(@, cycle) ]

\* face normal of a quad as bmesh computes it: cross product of the diagonals,
\* here reduced by the gcd of its components (the direction is what is tested)
FaceNormal(m, f) ==
    LET a == m.verts[f[1]]
        b == m.verts[f[2]]
        c == m.verts[f[3]]
        d == m.verts[f[4]]
        p == << a[1] - c[1], a[2] - c[2], a[3] - c[3] >>
        q == << b[1] - d[1], b[2] - d[2], b[3] - d[3] >>
        nx == p[2] * q[3] - p[3] * q[2]
        ny == p[3] * q[1] - p[1] * q[3]
        nz == p[1] * q[2] - p[2] * q[1]
        g == GCD(GCD(Abs(nx), Abs(ny)), Abs(nz))
    IN  IF g = 0 THEN << 0, 0, 0 >> ELSE << nx \div g, ny \div g, nz \div g >>

NormSq(n) == n[1] * n[1] + n[2] * n[2] + n[3] * n[3]

\* abs(f.normal.z) > 0.9
NormalZAbove09(n) == NormSq(n) > 0 /\ FracLess(81, 100, n[3] * n[3], NormSq(n))

\* abs(lf.normal.z) < 0.99
NormalZBelow099(n) == NormSq(n) = 0 \/ FracLess(n[3] * n[3], NormSq(n), 9801, 10000)

\* abs(sum(v.co.z for v in f.verts) / len(f.verts) - keycap_height) < 0.001
MeanZIs(m, f, h) ==
    LET s == m.verts[f[1]][3] + m.verts[f[2]][3] + m.verts[f[3]][3] + m.verts[f[4]][3]
    IN  Abs(s - 4 * h) * 1000 < 4 * Mm3(1000)

----------------------------------------------------------------------------
(* bpy.data *)

EmptyMesh == [ verts |-> << >>, faces |-> << >>, weight |-> << >>, select |-> {} ]

\* bpy.data.objects.new(name, mesh): the host makes the name unique
UniqueName(name, names) ==
    IF name \notin names THEN name
    ELSE IF (name \o ".001") \notin names THEN name \o ".001"
    ELSE IF (name \o ".002") \notin names THEN name \o ".002"
    ELSE name \o ".003"

\* object scale (1, 1, 1)
UnitScale == << Mm3(1000), Mm3(1000), Mm3(1000) >>

NewObject(kind, mesh, location, scale, size) ==
    [ kind      |-> kind,       \* "KEYCAP", "CYLINDER" or "CUBE"
      mesh      |-> mesh,
      location  |-> location,
      scale     |-> scale,      \* object scale; Mm3(1000) is the factor 1
      size      |-> size,       \* primitive dimensions <<x, y, z>> before scaling
      modifiers |-> << >>,
      applied   |-> << >>,      \* modifiers baked into the object's geometry
      select    |-> FALSE ]

ObjectsAdd(objs, name, o) ==
    [ n \in (DOMAIN objs) \cup {name} |-> IF n = name THEN o ELSE objs[n] ]

\* bpy.data.objects.remove(o, do_unlink=True)
ObjectsRemove(objs, name) ==
    [ n \in (DOMAIN objs) \ {name} |-> objs[n] ]

\* no Bake has returned yet
NoResult == [ status |-> "", op |-> 0 ]

\* a call of create_keycap that comes from no handler of the add-on
DirectCall == [ name |-> "create_keycap", before |-> << >> ]

\* unit settings of a new scene (lengths in thousandths of a scene unit)
DefaultUnits ==
    [ system |-> "NONE", scale_length |-> 1000, length_unit |-> "METERS",
      grid_scale |-> 1000 ]

NoDims == [ base_width |-> 0, top_width |-> 0, front_taper |-> 0, keycap_height |-> 0 ]
NoStem == [ stem_cylinder |-> NoObject, v_cross |-> NoObject, h_cross |-> NoObject,
            stem_height |-> 0 ]

----------------------------------------------------------------------------
(* Initial state: an empty scene, default properties, and a caller about   *)
(* to run create_keycap(width, profile_type, profile_row, bevel_vertical,  *)
(* stem_type)                                                              *)

Init ==
    /\ props = DefaultProps
    /\ objects = << >>
    /\ active = NoObject
    /\ pc = "new_object"
    /\ args \in [ width : ArgWidths, profile_type : ArgProfiles,
                  profile_row : ArgRows, bevel_vertical : ArgBevels,
                  stem_type : ArgStems ]
    /\ obj = NoObject
    /\ dims = NoDims
    /\ bm = EmptyBMesh
    /\ i = 0
    /\ stem = NoStem
    /\ raised = NoError
    /\ caller = DirectCall
    /\ units = DefaultUnits
    /\ ops = 0
    /\ result = NoResult
    /\ generated = 0

----------------------------------------------------------------------------
(* create_keycap *)

\* variant: the new object takes the name Keycap even when it is taken
NewKeycapObject_SameName ==
    /\ pc = "new_object"
    /\ LET name == "Keycap"
       IN  /\ objects' = ObjectsAdd(objects, name,
                            NewObject("KEYCAP", EmptyMesh, <<0, 0, 0>>,
                                      UnitScale, <<0, 0, 0>>))
           /\ obj' = name
    /\ bm' = EmptyBMesh
    /\ pc' = "profile"
    /\ UNCHANGED <<props, active, args, dims, i, stem, raised, caller, units, ops, result, generated>>

\* lines 36-42: mesh, object, link, bmesh.new()
NewKeycapObject ==
    /\ pc = "new_object"
    /\ LET name == UniqueName("Keycap", DOMAIN objects)
       IN  /\ objects' = ObjectsAdd(objects, name,
                            NewObject("KEYCAP", EmptyMesh, <<0, 0, 0>>,
                                      UnitScale, <<0, 0, 0>>))
           /\ obj' = name
    /\ bm' = EmptyBMesh
    /\ pc' = "profile"
    /\ UNCHANGED <<props, active, args, dims, i, stem, raised, caller, units, ops, result, generated>>

\* lines 49-70: profile-specific dimensions.  For a profile type that matches
\* no branch, row_heights is unbound at line 70 and the call raises.
ProfileDimensions ==
    /\ pc = "profile"
    /\ IF args.profile_type \in {"CHERRY", "OEM", "SA"}
       THEN /\ dims' = [ base_width    |-> BaseWidth(args.width),
                         top_width     |-> BaseWidth(args.width)
                                             - TopWidthDelta(args.profile_type),
                         front_taper   |-> FrontTaper(args.profile_type),
                         keycap_height |-> RowHeightGet(row_heights(args.profile_type),
                                                        args.profile_row) ]
            /\ pc' = "base_outer"
            /\ UNCHANGED raised
       ELSE /\ raised' = "UnboundLocalError"
            /\ pc' = "raised"
            /\ UNCHANGED dims
    /\ UNCHANGED <<props, objects, active, args, obj, bm, i, stem, caller, units, ops, result, generated>>

\* bm.verts.new for four corners
VertsNew(m, quad) == [ m EXCEPT !.verts = @ \o quad ]

\* lines 74-79
BaseOuterVerts ==
    /\ pc = "base_outer"
    /\ LET w == dims.base_width
           h == base_height
       IN  bm' = VertsNew(bm, << << -(w \div 2), -(h \div 2), 0 >>,
                                 <<  (w \div 2), -(h \div 2), 0 >>,
                                 <<  (w \div 2),  (h \div 2), 0 >>,
                                 << -(w \div 2),  (h \div 2), 0 >> >>)
    /\ pc' = "top_outer"
    /\ UNCHANGED <<props, objects, active, args, obj, dims, i, stem, raised, caller, units, ops, result, generated>>

\* variant: the taper is applied to both edges of the top
TopOuterVerts_BothTapered ==
    /\ pc = "top_outer"
    /\ LET w == dims.top_width
           front_y == (base_height \div 2) - dims.front_taper
           z == dims.keycap_height
       IN  bm' = VertsNew(bm, << << -(w \div 2), -front_y, z >>,
                                 <<  (w \div 2), -front_y, z >>,
                                 <<  (w \div 2), front_y, z >>,
                                 << -(w \div 2), front_y, z >> >>)
    /\ pc' = "base_inner"
    /\ UNCHANGED <<props, objects, active, args, obj, dims, i, stem, raised, caller, units, ops, result, generated>>

\* lines 81-90
TopOuterVerts ==
    /\ pc = "top_outer"
    /\ LET w == dims.top_width
           back_y == base_height \div 2
           front_y == (base_height \div 2) - dims.front_taper
           z == dims.keycap_height
       IN  bm' = VertsNew(bm, << << -(w \div 2), -back_y, z >>,
                                 <<  (w \div 2), -back_y, z >>,
                                 <<  (w \div 2), front_y, z >>,
                                 << -(w \div 2), front_y, z >> >>)
    /\ pc' = "base_inner"
    /\ UNCHANGED <<props, objects, active, args, obj, dims, i, stem, raised, caller, units, ops, result, generated>>

\* lines 94-106
BaseInnerVerts ==
    /\ pc = "base_inner"
    /\ LET w == dims.base_width - (wall_thickness * 2)
           h == base_height - (wall_thickness * 2)
       IN  bm' = VertsNew(bm, << << -(w \div 2), -(h \div 2), 0 >>,
                                 <<  (w \div 2), -(h \div 2), 0 >>,
                                 <<  (w \div 2),  (h \div 2), 0 >>,
                                 << -(w \div 2),  (h \div 2), 0 >> >>)
    /\ pc' = "top_inner"
    /\ UNCHANGED <<props, objects, active, args, obj, dims, i, stem, raised, caller, units, ops, result, generated>>

\* variant: the inner top keeps the outer depth
TopInnerVerts_OuterDepth ==
    /\ pc = "top_inner"
    /\ LET w == dims.top_width - (wall_thickness * 2)
           front_inner_taper == dims.front_taper
           inner_top_z == dims.keycap_height - wall_thickness
           back_inner_y == base_height \div 2
           front_inner_y == (base_height \div 2) - front_inner_taper
       IN  bm' = VertsNew(bm, << << -(w \div 2), -back_inner_y, inner_top_z >>,
                                 <<  (w \div 2), -back_inner_y, inner_top_z >>,
                                 <<  (w \div 2), front_inner_y, inner_top_z >>,
                                 << -(w \div 2), front_inner_y, inner_top_z >> >>)
    /\ pc' = "top_face"
    /\ UNCHANGED <<props, objects, active, args, obj, dims, i, stem, raised, caller, units, ops, result, generated>>

\* lines 96-98, 108-117
TopInnerVerts ==
    /\ pc = "top_inner"
    /\ LET w == dims.top_width - (wall_thickness * 2)
           base_inner_height == base_height - (wall_thickness * 2)
           front_inner_taper == dims.front_taper
           inner_top_z == dims.keycap_height - wall_thickness
           back_inner_y == base_inner_height \div 2
           front_inner_y == (base_inner_height \div 2) - front_inner_taper
       IN  bm' = VertsNew(bm, << << -(w \div 2), -back_inner_y, inner_top_z >>,
                                 <<  (w \div 2), -back_inner_y, inner_top_z >>,
                                 <<  (w \div 2), front_inner_y, inner_top_z >>,
                                 << -(w \div 2), front_inner_y, inner_top_z >> >>)
    /\ pc' = "top_face"
    /\ UNCHANGED <<props, objects, active, args, obj, dims, i, stem, raised, caller, units, ops, result, generated>>

\* line 121: top face (outer)
TopFace ==
    /\ pc = "top_face"
    /\ bm' = FacesNew(bm, << top_outer(0), top_outer(1), top_outer(2), top_outer(3) >>)
    /\ i' = 0
    /\ pc' = "outer_sides"
    /\ UNCHANGED <<props, objects, active, args, obj, dims, stem, raised, caller, units, ops, result, generated>>

\* lines 124-128: one iteration of the outer side face loop
OuterSideFace ==
    /\ pc = "outer_sides"
    /\ LET next_i == (i + 1) % 4
       IN  bm' = FacesNew(bm, << base_outer(i), base_outer(next_i),
                                 top_outer(next_i), top_outer(i) >>)
    /\ IF i < 3 THEN i' = i + 1 /\ pc' = pc
                ELSE i' = 0 /\ pc' = "corner_edges"
    /\ UNCHANGED <<props, objects, active, args, obj, dims, stem, raised, caller, units, ops, result, generated>>

\* variant: the edge along the base is taken for the corner edge
CornerEdgeOf_BaseEdge(m, k) ==
    { e \in LinkEdges(m, base_outer(k)) : e = {base_outer(k), base_outer((k + 1) % 4)} }

\* the first edge of base_outer[i].link_edges whose other end is top_outer[i]
CornerEdgeOf(m, k) ==
    { e \in LinkEdges(m, base_outer(k)) : e = {base_outer(k), top_outer(k)} }

\* lines 131-147: one iteration of the corner edge loop
CornerEdge ==
    /\ pc = "corner_edges"
    /\ LET found == CornerEdgeOf(bm, i)
       IN  IF found # {}
           THEN LET edge == CHOOSE e \in found : TRUE
                IN  bm' = [ bm EXCEPT !.select = @ \cup {edge},
                                      !.weight = SetWeight(@, edge, 10) ]
           ELSE bm' = bm
    /\ IF i < 3 THEN i' = i + 1 /\ pc' = pc
                ELSE i' = 0 /\ pc' = "inner_top"
    /\ UNCHANGED <<props, objects, active, args, obj, dims, stem, raised, caller, units, ops, result, generated>>

\* variant: the inner top face keeps the order of top_inner
InnerTopFace_NotReversed ==
    /\ pc = "inner_top"
    /\ bm' = FacesNew(bm, << top_inner(0), top_inner(1), top_inner(2), top_inner(3) >>)
    /\ i' = 0
    /\ pc' = "inner_sides"
    /\ UNCHANGED <<props, objects, active, args, obj, dims, stem, raised, caller, units, ops, result, generated>>

\* line 151: top face (inner), reversed
InnerTopFace ==
    /\ pc = "inner_top"
    /\ bm' = FacesNew(bm, << top_inner(3), top_inner(2), top_inner(1), top_inner(0) >>)
    /\ i' = 0
    /\ pc' = "inner_sides"
    /\ UNCHANGED <<props, objects, active, args, obj, dims, stem, raised, caller, units, ops, result, generated>>

\* abs(v1.co.z - v2.co.z) > 0.001 for the two ends of an edge
IsVerticalEdge(m, e) ==
    \E v1, v2 \in e :
        /\ v1 # v2
        /\ Abs(m.verts[v1][3] - m.verts[v2][3]) * 1000 > Mm3(1000)

\* variant: the last corner of the face is taken from the outer base
InnerSideFace_WrongCorner ==
    /\ pc = "inner_sides"
    /\ LET next_i == (i + 1) % 4
           face == << base_inner(i), top_inner(i), top_inner(next_i), base_outer(next_i) >>
           inner_vertical == { e \in FaceEdges(face) : IsVerticalEdge(bm, e) }
       IN  bm' = [ FacesNew(bm, face) EXCEPT !.select = @ \cup inner_vertical ]
    /\ IF i < 3 THEN i' = i + 1 /\ pc' = pc
                ELSE i' = 0 /\ pc' = "bottom_rim"
    /\ UNCHANGED <<props, objects, active, args, obj, dims, stem, raised, caller, units, ops, result, generated>>

\* lines 154-167: one iteration of the inner side face loop
InnerSideFace ==
    /\ pc = "inner_sides"
    /\ LET next_i == (i + 1) % 4
           face == << base_inner(i), top_inner(i), top_inner(next_i), base_inner(next_i) >>
           inner_vertical == { e \in FaceEdges(face) : IsVerticalEdge(bm, e) }
       IN  bm' = [ FacesNew(bm, face) EXCEPT !.select = @ \cup inner_vertical ]
    /\ IF i < 3 THEN i' = i + 1 /\ pc' = pc
                ELSE i' = 0 /\ pc' = "bottom_rim"
    /\ UNCHANGED <<props, objects, active, args, obj, dims, stem, raised, caller, units, ops, result, generated>>

\* variant: the loop runs over three sides only
BottomRimFace_ThreeSides ==
    /\ pc = "bottom_rim"
    /\ LET next_i == (i + 1) % 4
       IN  bm' = FacesNew(bm, << base_outer(i), base_inner(i),
                                 base_inner(next_i), base_outer(next_i) >>)
    /\ IF i < 2 THEN i' = i + 1 /\ pc' = pc
                ELSE i' = 0 /\ pc' = "top_rim"
    /\ UNCHANGED <<props, objects, active, args, obj, dims, stem, raised, caller, units, ops, result, generated>>

\* lines 170-175: one iteration of the bottom rim face loop
BottomRimFace ==
    /\ pc = "bottom_rim"
    /\ LET next_i == (i + 1) % 4
       IN  bm' = FacesNew(bm, << base_outer(i), base_inner(i),
                                 base_inner(next_i), base_outer(next_i) >>)
    /\ IF i < 3 THEN i' = i + 1 /\ pc' = pc
                ELSE i' = 0 /\ pc' = "top_rim"
    /\ UNCHANGED <<props, objects, active, args, obj, dims, stem, raised, caller, units, ops, result, generated>>

\* lines 180-185: indices of the horizontal faces at keycap_height
TopFaces(m, keycap_height) ==
    { k \in 1..Len(m.faces) :
        /\ MeanZIs(m, m.faces[k], keycap_height)
        /\ NormalZAbove09(FaceNormal(m, m.faces[k])) }

\* lines 189-199: the edges of top_faces[0] with a linked face, other than the
\* top face, that is not horizontal
RimEdges(m, keycap_height) ==
    LET top_faces == TopFaces(m, keycap_height)
    IN  IF top_faces = {} THEN {}
        ELSE LET top_face == CHOOSE k \in top_faces : \A j \in top_faces : k <= j
             IN  { e \in FaceEdges(m.faces[top_face]) :
                     \E lf \in LinkFaces(m, e) :
                        /\ lf # top_face
                        /\ NormalZBelow099(FaceNormal(m, m.faces[lf])) }

\* SetWeight over a set of edges
SetWeights(weight, edges, w) ==
    [ x \in (DOMAIN weight) \cup edges |-> IF x \in edges THEN w ELSE weight[x] ]

\* lines 177-199: normal_update, top rim edges get weight 0.5
TopRimEdges ==
    /\ pc = "top_rim"
    /\ bm' = [ bm EXCEPT !.weight = SetWeights(@, RimEdges(bm, dims.keycap_height), 5) ]
    /\ pc' = "to_mesh"
    /\ UNCHANGED <<props, objects, active, args, obj, dims, i, stem, raised, caller, units, ops, result, generated>>

\* lines 202-206: bm.to_mesh(mesh); bm.free()
ToMesh ==
    /\ pc = "to_mesh"
    /\ objects' = [ objects EXCEPT ![obj].mesh = bm ]
    /\ bm' = EmptyBMesh
    /\ pc' = "bevel_mod"
    /\ UNCHANGED <<props, active, args, obj, dims, i, stem, raised, caller, units, ops, result, generated>>

----------------------------------------------------------------------------
(* Modifiers *)

BevelModifier(name, width) ==
    [ name |-> name, type |-> "BEVEL", limit_method |-> "WEIGHT", segments |-> 8,
      use_clamp_overlap |-> TRUE, profile |-> 64,      \* hundredths
      width |-> width, operation |-> "", object |-> NoObject, solver |-> "" ]

BooleanModifier(name, operation, object) ==
    [ name |-> name, type |-> "BOOLEAN", limit_method |-> "", segments |-> 0,
      use_clamp_overlap |-> FALSE, profile |-> 0,
      width |-> 0, operation |-> operation, object |-> object, solver |-> "FAST" ]

\* obj.modifiers.new(...)
ModifiersNew(objs, name, mod) ==
    [ objs EXCEPT ![name].modifiers = Append(@, mod) ]

ModifierIndex(o, mod_name) ==
    { k \in 1..Len(o.modifiers) : o.modifiers[k].name = mod_name }

RemoveAt(s, k) == SubSeq(s, 1, k - 1) \o SubSeq(s, k + 1, Len(s))

\* bpy.ops.object.modifier_apply(modifier=mod_name) on the active object: the
\* modifier leaves the stack and its effect becomes part of the geometry.  A
\* boolean is recorded with the operand object as it is at that moment.
ModifierApply(objs, name, mod_name) ==
    LET k == CHOOSE j \in ModifierIndex(objs[name], mod_name) : TRUE
        mod == objs[name].modifiers[k]
        operand == IF mod.type = "BOOLEAN" /\ mod.object \in DOMAIN objs
                   THEN << [ name     |-> mod.object,
                             kind     |-> objs[mod.object].kind,
                             location |-> objs[mod.object].location,
                             scale    |-> objs[mod.object].scale,
                             size     |-> objs[mod.object].size,
                             applied  |-> objs[mod.object].applied ] >>
                   ELSE << >>
    IN  [ objs EXCEPT ![name].modifiers = RemoveAt(@, k),
                      ![name].applied = Append(@, [ modifier |-> mod,
                                                     operand  |-> operand ]) ]

\* variant: the stem is added whatever the stem type
AddBevelModifiers_AlwaysStem ==
    /\ pc = "bevel_mod"
    /\ objects' = ModifiersNew(objects, obj,
                               BevelModifier("Bevel_Vert_Mod", props.bevel_vertical))
    /\ pc' = "stem_cylinder"
    /\ UNCHANGED <<props, active, args, obj, dims, bm, i, stem, raised, caller, units, ops, result, generated>>

\* lines 15-25, 208: add_bevel_modifiers(obj); the width is read from the
\* scene property, the bevel_vertical argument of create_keycap is not used
AddBevelModifiers ==
    /\ pc = "bevel_mod"
    /\ objects' = ModifiersNew(objects, obj,
                               BevelModifier("Bevel_Vert_Mod", props.bevel_vertical))
    /\ pc' = IF args.stem_type = "CHERRY_MX" THEN "stem_cylinder" ELSE "done"
    /\ UNCHANGED <<props, active, args, obj, dims, bm, i, stem, raised, caller, units, ops, result, generated>>

----------------------------------------------------------------------------
(* _add_cherry_stem *)

\* variant: a cylinder as wide as the keycap
stem_outer_radius_Wide == Mm3(18000) \div 2

stem_outer_radius == Mm3(5600) \div 2
cross_length == Mm3(4150)
cross_width == Mm3(1290)

\* variant: the cylinder is centred on the base plane
StemCylinder_Centered ==
    /\ pc = "stem_cylinder"
    /\ LET stem_height == dims.keycap_height - Mm3(500)
           name == UniqueName("Stem_Cylinder", DOMAIN objects)
       IN  /\ objects' = ObjectsAdd(objects, name,
                            NewObject("CYLINDER", EmptyMesh,
                                      << 0, 0, 0 >>, UnitScale,
                                      << 2 * stem_outer_radius, 2 * stem_outer_radius,
                                         stem_height >>))
           /\ active' = name
           /\ stem' = [ stem EXCEPT !.stem_cylinder = name, !.stem_height = stem_height ]
    /\ pc' = "cross_v"
    /\ UNCHANGED <<props, args, obj, dims, bm, i, raised, caller, units, ops, result, generated>>

\* lines 219-233: stem dimensions, primitive_cylinder_add, rename.  The new
\* primitive becomes the active object.
StemCylinder ==
    /\ pc = "stem_cylinder"
    /\ LET stem_height == dims.keycap_height - Mm3(500)
           name == UniqueName("Stem_Cylinder", DOMAIN objects)
       IN  /\ objects' = ObjectsAdd(objects, name,
                            NewObject("CYLINDER", EmptyMesh,
                                      << 0, 0, stem_height \div 2 >>, UnitScale,
                                      << 2 * stem_outer_radius, 2 * stem_outer_radius,
                                         stem_height >>))
           /\ active' = name
           /\ stem' = [ stem EXCEPT !.stem_cylinder = name, !.stem_height = stem_height ]
    /\ pc' = "cross_v"
    /\ UNCHANGED <<props, args, obj, dims, bm, i, raised, caller, units, ops, result, generated>>

\* variant: the bar is exactly as tall as the cylinder
CrossVertical_SameHeight ==
    /\ pc = "cross_v"
    /\ LET name == UniqueName("Cross_Vertical", DOMAIN objects)
       IN  /\ objects' = ObjectsAdd(objects, name,
                            NewObject("CUBE", EmptyMesh,
                                      << 0, 0, stem.stem_height \div 2 >>,
                                      << cross_width, cross_length, stem.stem_height >>,
                                      << Mm3(1000), Mm3(1000), Mm3(1000) >>))
           /\ active' = name
           /\ stem' = [ stem EXCEPT !.v_cross = name ]
    /\ pc' = "cross_h"
    /\ UNCHANGED <<props, args, obj, dims, bm, i, raised, caller, units, ops, result, generated>>

\* lines 236-239: vertical bar of the cross
CrossVertical ==
    /\ pc = "cross_v"
    /\ LET name == UniqueName("Cross_Vertical", DOMAIN objects)
       IN  /\ objects' = ObjectsAdd(objects, name,
                            NewObject("CUBE", EmptyMesh,
                                      << 0, 0, stem.stem_height \div 2 >>,
                                      << cross_width, cross_length,
                                         stem.stem_height + Mm3(200) >>,
                                      << Mm3(1000), Mm3(1000), Mm3(1000) >>))
           /\ active' = name
           /\ stem' = [ stem EXCEPT !.v_cross = name ]
    /\ pc' = "cross_h"
    /\ UNCHANGED <<props, args, obj, dims, bm, i, raised, caller, units, ops, result, generated>>

\* lines 242-245: horizontal bar of the cross
CrossHorizontal ==
    /\ pc = "cross_h"
    /\ LET name == UniqueName("Cross_Horizontal", DOMAIN objects)
       IN  /\ objects' = ObjectsAdd(objects, name,
                            NewObject("CUBE", EmptyMesh,
                                      << 0, 0, stem.stem_height \div 2 >>,
                                      << cross_length, cross_width,
                                         stem.stem_height + Mm3(200) >>,
                                      << Mm3(1000), Mm3(1000), Mm3(1000) >>))
           /\ active' = name
           /\ stem' = [ stem EXCEPT !.h_cross = name ]
    /\ pc' = "bool_mods"
    /\ UNCHANGED <<props, args, obj, dims, bm, i, raised, caller, units, ops, result, generated>>

\* lines 248-257: the two difference modifiers on the cylinder
AddDifferenceModifiers ==
    /\ pc = "bool_mods"
    /\ objects' = ModifiersNew(
                    ModifiersNew(objects, stem.stem_cylinder,
                                 BooleanModifier("Boolean_V", "DIFFERENCE", stem.v_cross)),
                    stem.stem_cylinder,
                    BooleanModifier("Boolean_H", "DIFFERENCE", stem.h_cross))
    /\ pc' = "apply_v"
    /\ UNCHANGED <<props, active, args, obj, dims, bm, i, stem, raised, caller, units, ops, result, generated>>

\* lines 260-261
ApplyBooleanV ==
    /\ pc = "apply_v"
    /\ active' = stem.stem_cylinder
    /\ objects' = ModifierApply(objects, stem.stem_cylinder, "Boolean_V")
    /\ pc' = "apply_h"
    /\ UNCHANGED <<props, args, obj, dims, bm, i, stem, raised, caller, units, ops, result, generated>>

\* variant: the second difference is never applied
ApplyBooleanH_Unapplied ==
    /\ pc = "apply_h"
    /\ pc' = "remove_crosses"
    /\ UNCHANGED <<props, objects, active, args, obj, dims, bm, i, stem, raised, caller, units, ops, result, generated>>

\* line 262
ApplyBooleanH ==
    /\ pc = "apply_h"
    /\ objects' = ModifierApply(objects, active, "Boolean_H")
    /\ pc' = "remove_crosses"
    /\ UNCHANGED <<props, active, args, obj, dims, bm, i, stem, raised, caller, units, ops, result, generated>>

\* variant: only the vertical bar is removed
RemoveCrosses_OnlyVertical ==
    /\ pc = "remove_crosses"
    /\ objects' = ObjectsRemove(objects, stem.v_cross)
    /\ pc' = "union_mod"
    /\ UNCHANGED <<props, active, args, obj, dims, bm, i, stem, raised, caller, units, ops, result, generated>>

\* lines 265-266
RemoveCrosses ==
    /\ pc = "remove_crosses"
    /\ objects' = ObjectsRemove(ObjectsRemove(objects, stem.v_cross), stem.h_cross)
    /\ pc' = "union_mod"
    /\ UNCHANGED <<props, active, args, obj, dims, bm, i, stem, raised, caller, units, ops, result, generated>>

\* lines 269-272
AddUnionModifier ==
    /\ pc = "union_mod"
    /\ objects' = ModifiersNew(objects, obj,
                    BooleanModifier("Boolean_Stem_Union", "UNION", stem.stem_cylinder))
    /\ pc' = "apply_union"
    /\ UNCHANGED <<props, active, args, obj, dims, bm, i, stem, raised, caller, units, ops, result, generated>>

\* lines 275-276
ApplyUnion ==
    /\ pc = "apply_union"
    /\ active' = obj
    /\ objects' = ModifierApply(objects, obj, "Boolean_Stem_Union")
    /\ pc' = "remove_stem"
    /\ UNCHANGED <<props, args, obj, dims, bm, i, stem, raised, caller, units, ops, result, generated>>

\* line 279
RemoveStem ==
    /\ pc = "remove_stem"
    /\ objects' = ObjectsRemove(objects, stem.stem_cylinder)
    /\ pc' = "select"
    /\ UNCHANGED <<props, active, args, obj, dims, bm, i, stem, raised, caller, units, ops, result, generated>>

\* lines 281-282, then return obj (line 214)
SelectKeycap ==
    /\ pc = "select"
    /\ objects' = [ objects EXCEPT ![obj].select = TRUE ]
    /\ active' = obj
    /\ pc' = "done"
    /\ UNCHANGED <<props, args, obj, dims, bm, i, stem, raised, caller, units, ops, result, generated>>

----------------------------------------------------------------------------

Next ==
    \/ NewKeycapObject
    \/ ProfileDimensions
    \/ BaseOuterVerts
    \/ TopOuterVerts
    \/ BaseInnerVerts
    \/ TopInnerVerts
    \/ TopFace
    \/ OuterSideFace
    \/ CornerEdge
    \/ InnerTopFace
    \/ InnerSideFace
    \/ BottomRimFace
    \/ TopRimEdges
    \/ ToMesh
    \/ AddBevelModifiers
    \/ StemCylinder
    \/ CrossVertical
    \/ CrossHorizontal
    \/ AddDifferenceModifiers
    \/ ApplyBooleanV
    \/ ApplyBooleanH
    \/ RemoveCrosses
    \/ AddUnionModifier
    \/ ApplyUnion
    \/ RemoveStem
    \/ SelectKeycap

Spec == Init /\ [][Next]_vars

----------------------------------------------------------------------------
(* The add-on in a scene: the Generate operator and the property update    *)
(* callbacks run create_keycap with the values of the properties.  Here    *)
(* the host's modifier_apply may also fail, which raises RuntimeError in   *)
(* the running handler.                                                    *)

\* handlers run in one behaviour
MaxOps == 3

\* values the user picks in the panel
SceneWidths == {"1", "2"}
SceneProfiles == {"CHERRY", "SA"}
SceneRows == {"3", "1"}
SceneStems == {"CHERRY_MX", "None"}
SceneBevels == { Mm3(1500), Mm3(500) }

Idle == [ name |-> "idle", before |-> << >> ]

\* the parameter defaults of create_keycap
DefaultArgs ==
    [ width |-> 100, profile_type |-> "CHERRY", profile_row |-> 3,
      bevel_vertical |-> Mm3(1500), stem_type |-> "CHERRY_MX" ]

\* the keyword arguments both callers build from the properties
ArgsOfProps(p) ==
    [ width          |-> WidthFloat(p.width),
      profile_type   |-> p.profile_type,
      profile_row    |-> RowInt(p.profile_row),
      bevel_vertical |-> p.bevel_vertical,
      stem_type      |-> p.stem_type ]

InitScene ==
    /\ props = DefaultProps
    /\ objects = << >>
    /\ active = NoObject
    /\ pc = "idle"
    /\ args = DefaultArgs
    /\ obj = NoObject
    /\ dims = NoDims
    /\ bm = EmptyBMesh
    /\ i = 0
    /\ stem = NoStem
    /\ raised = NoError
    /\ caller = Idle
    /\ units = DefaultUnits
    /\ ops = 0
    /\ result = NoResult
    /\ generated = 0

\* a fresh frame of create_keycap
EnterCreateKeycap(a) ==
    /\ args' = a
    /\ obj' = NoObject
    /\ dims' = NoDims
    /\ bm' = EmptyBMesh
    /\ i' = 0
    /\ stem' = NoStem
    /\ raised' = NoError
    /\ pc' = "new_object"

\* KEYCAP_OT_generate.execute, lines 18-37: unit settings, then create_keycap
Generate ==
    /\ pc = "idle"
    /\ ops < MaxOps
    /\ ops' = ops + 1
    /\ units' = [ system |-> "METRIC", scale_length |-> 1,
                  length_unit |-> "MILLIMETERS", grid_scale |-> 1 ]
    /\ caller' = [ name |-> "generate", before |-> objects ]
    /\ generated' = generated + 1
    /\ EnterCreateKeycap(ArgsOfProps(props))
    /\ UNCHANGED <<props, objects, active, result>>

\* the properties whose update callback is update_keycap, and the values the
\* user picks for each
KeycapProperties == {"width", "profile_type", "profile_row", "stem_type"}

SceneItems(prop) ==
    CASE prop = "width"        -> SceneWidths
      [] prop = "profile_type" -> SceneProfiles
      [] prop = "profile_row"  -> SceneRows
      [] prop = "stem_type"    -> SceneStems

\* variant: the old keycap is left in place
UpdateKeycap_KeepOld ==
    /\ pc = "idle"
    /\ ops < MaxOps
    /\ ops' = ops + 1
    /\ \E prop \in KeycapProperties : \E value \in SceneItems(prop) :
          props' = [ props EXCEPT ![prop] = value ]
    /\ IF "Keycap" \in DOMAIN objects
       THEN /\ caller' = [ name |-> "update_keycap", before |-> objects ]
            /\ EnterCreateKeycap(ArgsOfProps(props'))
            /\ UNCHANGED <<objects, active>>
       ELSE UNCHANGED <<objects, active, pc, args, obj, dims, bm, i, stem, raised, caller>>
    /\ UNCHANGED <<units, result, generated>>

\* the user sets a property whose update callback is update_keycap (lines
\* 9-25): the object named Keycap, if there is one, is removed and
\* create_keycap runs with the new values
UpdateKeycap ==
    /\ pc = "idle"
    /\ ops < MaxOps
    /\ ops' = ops + 1
    /\ \E prop \in KeycapProperties : \E value \in SceneItems(prop) :
          props' = [ props EXCEPT ![prop] = value ]
    /\ IF "Keycap" \in DOMAIN objects
       THEN /\ objects' = ObjectsRemove(objects, "Keycap")
            /\ active' = IF active = "Keycap" THEN NoObject ELSE active
            /\ caller' = [ name |-> "update_keycap", before |-> objects ]
            /\ EnterCreateKeycap(ArgsOfProps(props'))
       ELSE UNCHANGED <<objects, active, pc, args, obj, dims, bm, i, stem, raised, caller>>
    /\ UNCHANGED <<units, result, generated>>

\* variant: the width is set on every object of the scene
UpdateBevels_AllObjects(objs, act, width) ==
    [ n \in DOMAIN objs |->
        [ objs[n] EXCEPT !.modifiers =
            [ k \in 1..Len(@) |->
                IF @[k].type = "BEVEL" /\ @[k].name = "Bevel_Vert_Mod"
                THEN [ @[k] EXCEPT !.width = width ]
                ELSE @[k] ] ] ]

\* update_bevels (lines 28-39): the width of the active object's
\* Bevel_Vert_Mod follows the property
UpdateBevels(objs, act, width) ==
    IF act = NoObject \/ act \notin DOMAIN objs THEN objs
    ELSE [ objs EXCEPT ![act].modifiers =
             [ k \in 1..Len(@) |->
                 IF @[k].type = "BEVEL" /\ @[k].name = "Bevel_Vert_Mod"
                 THEN [ @[k] EXCEPT !.width = width ]
                 ELSE @[k] ] ]

SetBevelVertical ==
    /\ pc = "idle"
    /\ ops < MaxOps
    /\ ops' = ops + 1
    /\ \E v \in SceneBevels :
          /\ props' = [ props EXCEPT !.bevel_vertical = v ]
          /\ objects' = UpdateBevels(objects, active, v)
    /\ UNCHANGED <<active, pc, args, obj, dims, bm, i, stem, raised, caller, units, result, generated>>

\* the frame of create_keycap is gone when its caller is left
LeaveFrame ==
    /\ pc' = "idle"
    /\ caller' = Idle
    /\ args' = DefaultArgs
    /\ obj' = NoObject
    /\ dims' = NoDims
    /\ bm' = EmptyBMesh
    /\ i' = 0
    /\ stem' = NoStem

LeaveHandler ==
    /\ LeaveFrame
    /\ UNCHANGED <<props, objects, active, units, ops, result, generated>>

\* create_keycap returned: execute reports and returns FINISHED (lines
\* 39-40), update_keycap returns
HandlerReturns ==
    /\ pc = "done"
    /\ caller.name \in {"generate", "update_keycap"}
    /\ raised' = NoError
    /\ LeaveHandler

\* nothing catches the exception: it leaves the handler and the host reports it
HandlerRaises ==
    /\ pc = "raised"
    /\ caller.name \in {"generate", "update_keycap"}
    /\ raised' = raised
    /\ LeaveHandler

\* lines 260-261, modifier_apply raises
ApplyBooleanVFails ==
    /\ pc = "apply_v"
    /\ active' = stem.stem_cylinder
    /\ raised' = "RuntimeError"
    /\ pc' = "raised"
    /\ UNCHANGED <<props, objects, args, obj, dims, bm, i, stem, caller, units, ops, result, generated>>

\* line 262, modifier_apply raises
ApplyBooleanHFails ==
    /\ pc = "apply_h"
    /\ raised' = "RuntimeError"
    /\ pc' = "raised"
    /\ UNCHANGED <<props, objects, active, args, obj, dims, bm, i, stem, caller, units, ops, result, generated>>

\* lines 275-276, modifier_apply raises
ApplyUnionFails ==
    /\ pc = "apply_union"
    /\ active' = obj
    /\ raised' = "RuntimeError"
    /\ pc' = "raised"
    /\ UNCHANGED <<props, objects, args, obj, dims, bm, i, stem, caller, units, ops, result, generated>>

NextScene ==
    \/ Generate
    \/ UpdateKeycap
    \/ SetBevelVertical
    \/ HandlerReturns
    \/ HandlerRaises
    \/ ApplyBooleanVFails
    \/ ApplyBooleanHFails
    \/ ApplyUnionFails
    \/ Next

SpecScene == InitScene /\ [][NextScene]_vars

----------------------------------------------------------------------------
(* The Bake operator, KEYCAP_OT_bake.execute.  Its local obj is the active  *)
(* object; list(obj.modifiers), the stack as Bake found it, is              *)
(* caller.before[obj].modifiers and i counts the modifiers applied so far.  *)

\* lines 51-59: there is an active object (NoObject is never a name in the
\* scene) and it has modifiers
Bakeable(objs, act) == act \in DOMAIN objs /\ objs[act].modifiers # << >>

\* lines 51-59: no active object, or an active object without modifiers
BakeCancelled ==
    /\ pc = "idle"
    /\ ops < MaxOps
    /\ ~Bakeable(objects, active)
    /\ result' = [ status |-> "CANCELLED", op |-> ops + 1 ]
    /\ ops' = ops + 1
    /\ UNCHANGED <<props, objects, active, pc, args, obj, dims, bm, i, stem, raised,
                   caller, units, generated>>

\* lines 51-65: Bake finds modifiers on the active object and enters the loop
BakeStart ==
    /\ pc = "idle"
    /\ ops < MaxOps
    /\ Bakeable(objects, active)
    /\ ops' = ops + 1
    /\ obj' = active
    /\ i' = 0
    /\ caller' = [ name |-> "bake", before |-> objects ]
    /\ pc' = "bake_loop"
    /\ UNCHANGED <<props, objects, active, args, dims, bm, stem, raised, units, result, generated>>

\* variant: the loop walks the stack from its last modifier
BakeApply_LastFirst ==
    /\ pc = "bake_loop"
    /\ i < Len(caller.before[obj].modifiers)
    /\ objects' = ModifierApply(objects, obj,
                     caller.before[obj].modifiers[
                         Len(caller.before[obj].modifiers) - i].name)
    /\ i' = i + 1
    /\ UNCHANGED <<props, active, pc, args, obj, dims, bm, stem, raised, caller, units,
                   ops, result, generated>>

\* lines 65-67: modifier_apply of the next modifier of the list
BakeApply ==
    /\ pc = "bake_loop"
    /\ i < Len(caller.before[obj].modifiers)
    /\ objects' = ModifierApply(objects, obj, caller.before[obj].modifiers[i + 1].name)
    /\ i' = i + 1
    /\ UNCHANGED <<props, active, pc, args, obj, dims, bm, stem, raised, caller, units,
                   ops, result, generated>>

\* lines 68-70: modifier_apply raises; Bake reports the error and is cancelled
BakeApplyFails ==
    /\ pc = "bake_loop"
    /\ i < Len(caller.before[obj].modifiers)
    /\ result' = [ status |-> "CANCELLED", op |-> ops ]
    /\ raised' = NoError
    /\ LeaveFrame
    /\ UNCHANGED <<props, objects, active, units, ops, generated>>

\* lines 72-73: the loop is over
BakeFinished ==
    /\ pc = "bake_loop"
    /\ i = Len(caller.before[obj].modifiers)
    /\ result' = [ status |-> "FINISHED", op |-> ops ]
    /\ raised' = NoError
    /\ LeaveFrame
    /\ UNCHANGED <<props, objects, active, units, ops, generated>>

NextBake ==
    \/ BakeCancelled
    \/ BakeStart
    \/ BakeApply
    \/ BakeApplyFails
    \/ BakeFinished
    \/ NextScene

SpecBake == InitScene /\ [][NextBake]_vars

----------------------------------------------------------------------------
(* Observations used by the properties *)

\* the keycap's geometry: the bmesh while it is alive, the object's mesh after
Geom ==
    IF Len(bm.verts) > 0 \/ obj \notin DOMAIN objects THEN bm ELSE objects[obj].mesh

ValidProfile == args.profile_type \in ProfileItems

\* the shell-building blocks of create_keycap have all run
ShellDone ==
    pc \in { "top_rim", "to_mesh", "bevel_mod", "stem_cylinder", "cross_v", "cross_h",
             "bool_mods", "apply_v", "apply_h", "remove_crosses", "union_mod",
             "apply_union", "remove_stem", "select", "done" }

\* the weighting blocks have run too
WeightingDone == ShellDone /\ pc # "top_rim"

CornerEdgeSet == { {base_outer(k), top_outer(k)} : k \in 0..3 }
TopRimEdgeSet == { {top_outer(k), top_outer((k + 1) % 4)} : k \in 0..3 }
OuterBaseEdgeSet == { {base_outer(k), base_outer((k + 1) % 4)} : k \in 0..3 }
InnerBaseEdgeSet == { {base_inner(k), base_inner((k + 1) % 4)} : k \in 0..3 }

AppliedOperations(o) == { o.applied[k].modifier.operation : k \in 1..Len(o.applied) }
ModifierTypes(o) == { o.modifiers[k].type : k \in 1..Len(o.modifiers) }

\* the stages of the assembler, read off the data
StageShellBuilt == Len(Geom.verts) = 16 /\ Len(Geom.faces) = 14
StageWeighted ==
    /\ StageShellBuilt
    /\ \A e \in CornerEdgeSet : WeightOf(Geom, e) = 10
    /\ \A e \in TopRimEdgeSet : WeightOf(Geom, e) = 5
StageStemBuilt ==
    /\ stem.stem_cylinder \in DOMAIN objects
    /\ Len(objects[stem.stem_cylinder].applied) = 2
    /\ AppliedOperations(objects[stem.stem_cylinder]) = {"DIFFERENCE"}
StageCombined ==
    /\ obj \in DOMAIN objects
    /\ "UNION" \in AppliedOperations(objects[obj])

\* EMPTY 0, SHELL_BUILT 1, WEIGHTED 2, STEM_BUILT 3, COMBINED 4, DONE 5
StageRank ==
    IF pc = "done" THEN 5
    ELSE IF StageCombined THEN 4
    ELSE IF StageStemBuilt THEN 3
    ELSE IF StageWeighted THEN 2
    ELSE IF StageShellBuilt THEN 1
    ELSE 0

\* this step writes a bevel weight w to some edge
WritesWeight(w) ==
    \E e \in DOMAIN bm'.weight : bm'.weight[e] = w /\ WeightOf(bm, e) # w

\* this step applies the stem union to the keycap
AppliesUnion ==
    /\ obj \in DOMAIN objects /\ obj \in DOMAIN objects'
    /\ "UNION" \in AppliedOperations(objects'[obj])
    /\ "UNION" \notin AppliedOperations(objects[obj])

StageOrder ==
    args.stem_type = "CHERRY_MX" =>
        /\ StageRank' \in { StageRank, StageRank + 1 }
        /\ AppliesUnion => StageStemBuilt

----------------------------------------------------------------------------
(* Properties *)

\* C1 (as stated): with stem CHERRY_MX the stages EMPTY, SHELL_BUILT, WEIGHTED,
\* STEM_BUILT, COMBINED, DONE follow one another without a stage being
\* revisited or skipped, no bevel weight is written to an edge before all 14
\* shell faces exist, and the union is applied only after both subtractions.
C1_Original ==
    [][ args.stem_type = "CHERRY_MX" =>
          /\ StageOrder
          /\ (WritesWeight(10) \/ WritesWeight(5)) => Len(bm.faces) = 14 ]_vars

\* C1 (amended): the stages follow one another in that order, the union is
\* applied only after both subtractions, and the rim weights 0.5 are written
\* only when all 14 faces exist; the corner weights 1.0 are written when only
\* the 5 outer faces (top and four sides) exist.
C1_StagesInOrder ==
    [][ args.stem_type = "CHERRY_MX" =>
          /\ StageOrder
          /\ WritesWeight(5) => Len(bm.faces) = 14
          /\ WritesWeight(10) => Len(bm.faces) = 5 ]_vars

C1_Witness ==
    /\ pc = "done"
    /\ args.stem_type = "CHERRY_MX"
    /\ StageRank = 5
    /\ StageCombined
    /\ StageWeighted

\* C2: with the no-stem value no cylinder or cutter object is ever created and
\* no boolean modifier is ever added or applied, and the returned keycap has
\* the shell's 16 vertices and 14 faces with its bevel weights.
C2_NoStemSkipsStem ==
    args.stem_type = "None" =>
        /\ \A n \in DOMAIN objects :
              /\ objects[n].kind = "KEYCAP"
              /\ "BOOLEAN" \notin ModifierTypes(objects[n])
              /\ objects[n].applied = << >>
        /\ pc \notin { "stem_cylinder", "cross_v", "cross_h", "bool_mods", "apply_v",
                       "apply_h", "remove_crosses", "union_mod", "apply_union",
                       "remove_stem", "select" }
        /\ pc = "done" =>
              /\ DOMAIN objects = {obj}
              /\ Len(objects[obj].mesh.verts) = 16
              /\ Len(objects[obj].mesh.faces) = 14
              /\ { e \in MeshEdges(objects[obj].mesh) : WeightOf(objects[obj].mesh, e) = 10 }
                    = CornerEdgeSet
              /\ { e \in MeshEdges(objects[obj].mesh) : WeightOf(objects[obj].mesh, e) = 5 }
                    = TopRimEdgeSet

C2_Witness ==
    /\ pc = "done"
    /\ args.stem_type = "None"
    /\ Len(objects[obj].mesh.faces) = 14

\* C3: once the shell is built, every edge of the shell mesh is shared by
\* exactly two of its faces.
C3_ShellManifold ==
    ShellDone =>
        \A e \in MeshEdges(Geom) : Cardinality(LinkFaces(Geom, e)) = 2

C3_Witness ==
    /\ pc = "top_rim"
    /\ args.width = 625
    /\ args.profile_type = "SA"
    /\ Cardinality(MeshEdges(bm)) = 28

\* C4 (as stated): the 4 outer base edges and the 4 inner base edges are each
\* referenced by exactly one face, every other edge by exactly two.
C4_Original ==
    ShellDone =>
        \A e \in MeshEdges(Geom) :
            Cardinality(LinkFaces(Geom, e)) =
                IF e \in OuterBaseEdgeSet \cup InnerBaseEdgeSet THEN 1 ELSE 2

\* C4 (amended): each outer base edge is referenced by exactly two faces, its
\* outer side face and its bottom rim face; each inner base edge by exactly
\* two, its inner side face and its bottom rim face; every other edge by
\* exactly two as well.
C4_BaseEdgesSideAndRim ==
    ShellDone =>
        /\ \A k \in 0..3 :
              /\ LinkFaces(Geom, {base_outer(k), base_outer((k + 1) % 4)}) = {2 + k, 11 + k}
              /\ LinkFaces(Geom, {base_inner(k), base_inner((k + 1) % 4)}) = {7 + k, 11 + k}
        /\ \A e \in MeshEdges(Geom) \ (OuterBaseEdgeSet \cup InnerBaseEdgeSet) :
              Cardinality(LinkFaces(Geom, e)) = 2

C4_Witness ==
    /\ pc = "to_mesh"
    /\ Len(bm.faces) = 14
    /\ OuterBaseEdgeSet \cup InnerBaseEdgeSet \subseteq MeshEdges(bm)

\* extents of the rectangle whose first corner is vertex a (corners a..a+3)
RectWidth(m, a) == m.verts[a + 1][1] - m.verts[a][1]
RectDepth(m, a) == m.verts[a + 2][2] - m.verts[a + 1][2]
RectYs(m, a) == { m.verts[a + k][2] : k \in 0..3 }
RectZs(m, a) == { m.verts[a + k][3] : k \in 0..3 }

\* C5: the inner rectangle is the outer rectangle shrunk by exactly twice the
\* wall thickness (2 x 0.91 mm) in width and in depth, at the base and at the top.
C5_InnerShrunkByTwoWalls ==
    Len(Geom.verts) = 16 =>
        /\ RectWidth(Geom, base_outer(0)) - RectWidth(Geom, base_inner(0)) = 2 * Mm3(910)
        /\ RectDepth(Geom, base_outer(0)) - RectDepth(Geom, base_inner(0)) = 2 * Mm3(910)
        /\ RectWidth(Geom, top_outer(0)) - RectWidth(Geom, top_inner(0)) = 2 * Mm3(910)
        /\ RectDepth(Geom, top_outer(0)) - RectDepth(Geom, top_inner(0)) = 2 * Mm3(910)
        /\ RectZs(Geom, base_outer(0)) = {0}
        /\ RectZs(Geom, base_inner(0)) = {0}

C5_Witness ==
    /\ Len(Geom.verts) = 16
    /\ pc = "done"
    /\ args.profile_type = "OEM"
    /\ args.width = 275
    /\ RectWidth(Geom, top_inner(0)) = Mm3(49500 - 3000 - 1820)

\* C6 (as stated): the outer top rectangle has width base_width -
\* top_width_delta, its back edge at y = +base_depth/2 and its front edge at
\* y = -base_depth/2 + front_taper.
C6_Original ==
    (ValidProfile /\ Len(Geom.verts) >= 8) =>
        /\ RectWidth(Geom, top_outer(0))
              = BaseWidth(args.width) - TopWidthDelta(args.profile_type)
        /\ RectYs(Geom, top_outer(0))
              = { base_height \div 2,
                  -(base_height \div 2) + FrontTaper(args.profile_type) }

\* C6 (amended): the outer top rectangle has width base_width -
\* top_width_delta; its edge on the -y side stays at y = -base_depth/2, the y
\* of the base's edge on that side, and its edge on the +y side is pulled in
\* to y = +base_depth/2 - front_taper.
C6_TopRectangle ==
    (ValidProfile /\ Len(Geom.verts) >= 8) =>
        /\ RectWidth(Geom, top_outer(0))
              = BaseWidth(args.width) - TopWidthDelta(args.profile_type)
        /\ Geom.verts[top_outer(0)][2] = -(Mm3(18000) \div 2)
        /\ Geom.verts[top_outer(1)][2] = -(Mm3(18000) \div 2)
        /\ Geom.verts[top_outer(0)][2] = Geom.verts[base_outer(0)][2]
        /\ Geom.verts[top_outer(2)][2]
              = (Mm3(18000) \div 2) - FrontTaper(args.profile_type)
        /\ Geom.verts[top_outer(3)][2]
              = (Mm3(18000) \div 2) - FrontTaper(args.profile_type)
        /\ Geom.verts[top_outer(2)][2] < Geom.verts[base_outer(2)][2]

C6_Witness ==
    /\ pc = "done"
    /\ args.profile_type = "CHERRY"
    /\ args.width = 100
    /\ RectYs(Geom, top_outer(0)) = { Mm3(-9000), Mm3(5600) }
    /\ RectWidth(Geom, top_outer(0)) = Mm3(12500)

\* a face all of whose vertices have the same z
HorizontalFace(m, f) == Cardinality({ m.verts[f[k]][3] : k \in 1..Len(f) }) = 1

\* C7: exactly the 4 outer edges base_outer[i]-top_outer[i] end with weight
\* 1.0, the border edges of the outer top face that adjoin a non-horizontal
\* face end with weight 0.5, every other edge ends with weight 0; so 4 corner
\* edges and at most 4 top-rim edges carry a weight, and no edge is in both sets.
C7_BevelWeights ==
    WeightingDone =>
        LET m == Geom
            heavy == { e \in MeshEdges(m) : WeightOf(m, e) = 10 }
            light == { e \in MeshEdges(m) : WeightOf(m, e) = 5 }
        IN  /\ DOMAIN m.weight \subseteq MeshEdges(m)
            /\ heavy = CornerEdgeSet
            /\ light = { e \in FaceEdges(m.faces[1]) :
                           \E lf \in LinkFaces(m, e) \ {1} :
                              ~HorizontalFace(m, m.faces[lf]) }
            /\ \A e \in MeshEdges(m) \ (heavy \cup light) : WeightOf(m, e) = 0
            /\ \A e \in InnerBaseEdgeSet \cup OuterBaseEdgeSet
                        \cup { {base_inner(k), top_inner(k)} : k \in 0..3 } :
                  WeightOf(m, e) = 0
            /\ Cardinality(heavy) = 4
            /\ Cardinality(light) <= 4
            /\ heavy \cap light = {}

C7_Witness ==
    /\ pc = "done"
    /\ Cardinality(DOMAIN Geom.weight) = 8
    /\ WeightOf(Geom, {base_outer(2), top_outer(2)}) = 10
    /\ WeightOf(Geom, {top_outer(2), top_outer(3)}) = 5

KeycapBevels(o) ==
    { k \in 1..Len(o.modifiers) : o.modifiers[k].name = "Bevel_Vert_Mod" }

\* C8 (as stated): every generated keycap carries an unapplied weight-limited
\* bevel with 8 segments, profile shape 0.64 and a radius equal to the bevel
\* value supplied to the generation call.
C8_Original ==
    pc = "done" =>
        /\ \A k \in 1..Len(objects[obj].applied) :
              objects[obj].applied[k].modifier.type # "BEVEL"
        /\ \E k \in KeycapBevels(objects[obj]) :
              /\ objects[obj].modifiers[k].type = "BEVEL"
              /\ objects[obj].modifiers[k].limit_method = "WEIGHT"
              /\ objects[obj].modifiers[k].segments = 8
              /\ objects[obj].modifiers[k].profile = 64
              /\ objects[obj].modifiers[k].width = args.bevel_vertical

\* heights of the profile rows in thousandths of a millimetre, as tabulated
TabulatedHeight(profile_type, row) ==
    CASE profile_type = "CHERRY" -> << 11500, 9500, 8500, 9500 >>[row]
      [] profile_type = "OEM"    -> << 12500, 11000, 9500, 10500 >>[row]
      [] profile_type = "SA"     -> << 14890, 13490, 12925, 13490 >>[row]

\* C9: a row outside 1..4 is never rejected and gives the profile's row-3
\* height (8.5, 9.5, 12.925); rows 1-4 give the tabulated heights.
C9_RowFallback ==
    (ValidProfile /\ pc \notin {"new_object", "profile"}) =>
        /\ raised = NoError
        /\ pc # "raised"
        /\ dims.keycap_height =
              Mm3(TabulatedHeight(args.profile_type,
                     IF args.profile_row \in 1..4 THEN args.profile_row ELSE 3))
        /\ Len(Geom.verts) >= 8 => RectZs(Geom, top_outer(0)) = {dims.keycap_height}

C9_Witness ==
    /\ pc = "done"
    /\ args.profile_row = 9
    /\ args.profile_type = "SA"
    /\ RectZs(Geom, top_outer(0)) = {Mm3(12925)}

\* C10: for every profile, every row 1..4 and every enumerated width the
\* height and the top width base_width - top_width_delta are strictly positive.
C10_PositiveDimensions ==
    ( /\ ValidProfile
      /\ args.profile_row \in 1..4
      /\ args.width \in { WidthFloat(s) : s \in WidthItems }
      /\ pc \notin {"new_object", "profile"} ) =>
        /\ dims.keycap_height > 0
        /\ dims.top_width > 0
        /\ dims.top_width = dims.base_width - TopWidthDelta(args.profile_type)
        /\ Len(Geom.verts) >= 8 =>
              /\ RectWidth(Geom, top_outer(0)) > 0
              /\ \A z \in RectZs(Geom, top_outer(0)) : z > 0

C10_Witness ==
    /\ pc = "done"
    /\ args.profile_type = "CHERRY"
    /\ args.profile_row = 3
    /\ args.width = 100
    /\ dims.top_width = Mm3(12500)
    /\ dims.keycap_height = Mm3(8500)

----------------------------------------------------------------------------
\* C11: a profile type that is not in the table makes create_keycap fail with
\* the error InvalidProfile, and it fails before any keycap object or mesh is
\* created or linked into the scene.
C11_Original ==
    (~ValidProfile /\ pc = "raised") =>
        /\ raised = "InvalidProfile"
        /\ objects = << >>

\* C12: when the outer top rectangle has a width or a depth that is not
\* positive, the shell construction fails with DegenerateProfile and no mesh
\* is produced.
C12_Original ==
    ( /\ ValidProfile
      /\ pc \notin {"new_object", "profile"}
      /\ \/ dims.top_width <= 0
         \/ 2 * Mm3(9000) - dims.front_taper <= 0 ) =>
        /\ raised = "DegenerateProfile"
        /\ Len(bm.verts) = 0
        /\ \A n \in DOMAIN objects : Len(objects[n].mesh.verts) = 0

\* C13: a stem type that is neither CHERRY_MX nor the no-stem value makes
\* create_keycap fail with UnsupportedStemType; no keycap is returned.
C13_Original ==
    ( /\ ValidProfile
      /\ args.stem_type \notin StemItems
      /\ pc \in {"done", "raised"} ) =>
        /\ pc = "raised"
        /\ raised = "UnsupportedStemType"

----------------------------------------------------------------------------
\* C14: when a regeneration started by a property change fails at any stage,
\* the keycap object that existed before the change still exists afterwards
\* and is unchanged.
C14_Original ==
    (caller.name = "update_keycap" /\ pc = "raised") =>
        /\ "Keycap" \in DOMAIN objects
        /\ objects["Keycap"] = caller.before["Keycap"]

\* the helper objects of the stem construction
StemHelpers(objs) ==
    { n \in DOMAIN objs : objs[n].kind \in {"CYLINDER", "CUBE"} }

\* C15: when a boolean subtraction or the union fails, the error reaches the
\* caller and the partially built keycap is discarded: neither the keycap of
\* the failed call nor a Stem_Cylinder, Cross_Vertical or Cross_Horizontal
\* object remains in the scene.
C15_Original ==
    (pc = "raised" /\ raised = "RuntimeError") =>
        /\ obj \notin DOMAIN objects
        /\ StemHelpers(objects) = {}

\* the object o is the keycap that create_keycap builds for the property values p
ReflectsProps(o, p) ==
    /\ Len(o.mesh.verts) = 16
    /\ Len(o.mesh.faces) = 14
    /\ RectWidth(o.mesh, base_outer(0)) = (WidthFloat(p.width) * Mm3(18000)) \div 100
    /\ RectWidth(o.mesh, top_outer(0))
          = (WidthFloat(p.width) * Mm3(18000)) \div 100 - TopWidthDelta(p.profile_type)
    /\ RectZs(o.mesh, top_outer(0))
          = { Mm3(TabulatedHeight(p.profile_type, RowInt(p.profile_row))) }
    /\ (p.stem_type = "CHERRY_MX")
          <=> (\E k \in 1..Len(o.applied) : o.applied[k].modifier.operation = "UNION")
    /\ \E k \in 1..Len(o.modifiers) :
          /\ o.modifiers[k].name = "Bevel_Vert_Mod"
          /\ o.modifiers[k].width = p.bevel_vertical

\* C16: every change of width, profile type, row or stem type made while an
\* object named Keycap exists removes that object and builds a fresh one,
\* starting from an empty mesh, with the current property values; no mesh of
\* an object that was already in the scene is edited; when the regeneration
\* has returned, the object named Keycap reflects the current property values.
C16_RegenerateFromEmpty ==
    [][ /\ ( /\ pc = "idle"
             /\ "Keycap" \in DOMAIN objects
             /\ \E prop \in KeycapProperties : props'[prop] # props[prop] ) =>
               /\ caller'.name = "update_keycap"
               /\ "Keycap" \notin DOMAIN objects'
               /\ DOMAIN objects' = DOMAIN objects \ {"Keycap"}
               /\ pc' = "new_object"
               /\ args' = ArgsOfProps(props')
               /\ bm' = EmptyBMesh
        /\ (caller.name = "update_keycap" /\ pc = "new_object") =>
               /\ obj' = "Keycap"
               /\ "Keycap" \in DOMAIN objects'
               /\ objects'["Keycap"].mesh = EmptyMesh
               /\ objects'["Keycap"].modifiers = << >>
        /\ caller.name = "update_keycap" =>
               \A n \in (DOMAIN objects \cap DOMAIN objects') \ {obj'} :
                   objects'[n].mesh = objects[n].mesh
        /\ (caller'.name = "update_keycap" /\ pc' = "done") =>
               /\ obj' = "Keycap"
               /\ ReflectsProps(objects'["Keycap"], props')
      ]_vars

C16_Witness ==
    /\ pc = "done"
    /\ caller.name = "update_keycap"
    /\ props.width = "2"
    /\ props.stem_type = "CHERRY_MX"
    /\ "Keycap" \in DOMAIN caller.before
    /\ RectWidth(caller.before["Keycap"].mesh, base_outer(0)) = Mm3(18000)
    /\ RectWidth(objects["Keycap"].mesh, base_outer(0)) = Mm3(36000)
    /\ ReflectsProps(objects["Keycap"], props)

----------------------------------------------------------------------------
\* extent of a primitive along z, and the z of its top and bottom
ZExtent(o) == (o.size[3] * o.scale[3]) \div Mm3(1000)
ZTop(o) == o.location[3] + ZExtent(o) \div 2
ZBottom(o) == o.location[3] - ZExtent(o) \div 2

\* the stem cylinder of the running call, while it is an object of the scene
CylinderExists == stem.stem_cylinder \in DOMAIN objects
Cylinder == objects[stem.stem_cylinder]

\* the cylinder as the union merged it into the keycap
MergedStems ==
    IF obj \notin DOMAIN objects THEN {}
    ELSE { objects[obj].applied[k].operand[1] :
             k \in { j \in 1..Len(objects[obj].applied) :
                       /\ objects[obj].applied[j].modifier.operation = "UNION"
                       /\ Len(objects[obj].applied[j].operand) = 1 } }

StemSolids == (IF CylinderExists THEN {Cylinder} ELSE {}) \cup MergedStems

\* z of the underside of the top wall: the interior top face of the shell
InnerTopZ == objects[obj].mesh.verts[top_inner(0)][3]

\* C17 (as stated): the top of the stem cylinder is flush with the underside
\* of the interior top face, at z = keycap_height - wall_thickness.
C17_Original ==
    \A s \in StemSolids :
        /\ ZTop(s) = dims.keycap_height - wall_thickness
        /\ ZTop(s) = InnerTopZ

\* C17 (amended): the stem cylinder stands on the base plane z = 0 and its top
\* is at z = keycap_height - 0.5 mm; that is 0.41 mm above the underside of the
\* interior top face (z = keycap_height - 0.91 mm) and 0.5 mm below the outer
\* top face, so the cylinder ends inside the top wall.
C17_StemTopInsideTopWall ==
    \A s \in StemSolids :
        /\ ZBottom(s) = 0
        /\ ZTop(s) = dims.keycap_height - Mm3(500)
        /\ InnerTopZ = dims.keycap_height - Mm3(910)
        /\ ZTop(s) - InnerTopZ = Mm3(410)
        /\ RectZs(objects[obj].mesh, top_outer(0)) = { ZTop(s) + Mm3(500) }

C17_Witness ==
    /\ pc = "done"
    /\ args.profile_type = "SA"
    /\ args.profile_row = 1
    /\ \E s \in MergedStems : ZTop(s) = Mm3(14390) /\ ZBottom(s) = 0
    /\ InnerTopZ = Mm3(13980)

----------------------------------------------------------------------------
\* radius of a cylinder primitive
Radius(o) == ((o.size[1] * o.scale[1]) \div Mm3(1000)) \div 2

Min(S) == CHOOSE x \in S : \A y \in S : x <= y

\* distance in the xy plane from the z axis to the nearest side of the
\* rectangle of the four vertices m.verts[a .. a+3] (negative when the axis is
\* outside the rectangle)
Clearance(m, a) ==
    LET xs == { m.verts[a + k][1] : k \in 0..3 }
        ys == { m.verts[a + k][2] : k \in 0..3 }
    IN  Min({ -Min(xs), -Min({ -x : x \in xs }), -Min(ys), -Min({ -y : y \in ys }) })

\* the solid s has a point in the bottom rim: it reaches the plane z = 0 and,
\* standing on the shell's axis, it reaches past a side of the inner base
\* rectangle
OverlapsBottomRim(s) ==
    /\ s.location[1] = 0
    /\ s.location[2] = 0
    /\ ZBottom(s) <= 0
    /\ ZTop(s) >= 0
    /\ Radius(s) >= Clearance(objects[obj].mesh, base_inner(0))

EnumeratedWidth == args.width \in { WidthFloat(w) : w \in WidthItems }

\* C18 (as stated): for CHERRY_MX and every profile, row and width the stem
\* solid at the shell's centre overlaps the shell's bottom rim.
C18_Original ==
    \A s \in StemSolids : OverlapsBottomRim(s)

\* C18 (amended): the stem solid stands on the shell's axis with radius 2.8 mm.
\* It overlaps the bottom rim exactly when the inner base rectangle's half
\* width 9 * width - 0.91 mm is at most 2.8 mm, which is so for none of the
\* enumerated widths: there the stem stays at least 5.29 mm away from the rim.
\* For the enumerated widths the stem meets the shell in the top wall: it lies
\* under the interior top face in cross-section and its top is between the
\* interior and the outer top face.
C18_StemMeetsTopWallNotRim ==
    \A s \in StemSolids :
        /\ s.location[1] = 0 /\ s.location[2] = 0
        /\ Radius(s) = Mm3(2800)
        /\ OverlapsBottomRim(s)
              <=> (args.width * Mm3(18000)) \div 200 - Mm3(910) <= Mm3(2800)
        /\ EnumeratedWidth =>
              /\ ~OverlapsBottomRim(s)
              /\ Clearance(objects[obj].mesh, base_inner(0)) - Radius(s) >= Mm3(5290)
              /\ Radius(s) < Clearance(objects[obj].mesh, top_inner(0))
              /\ ZTop(s) > InnerTopZ
              /\ \A z \in RectZs(objects[obj].mesh, top_outer(0)) : ZTop(s) < z

C18_Witness ==
    /\ pc = "done"
    /\ args.width = 100
    /\ args.profile_type = "CHERRY"
    /\ \E s \in MergedStems :
          /\ Radius(s) = Mm3(2800)
          /\ Clearance(objects[obj].mesh, base_inner(0)) = Mm3(8090)
          /\ Clearance(objects[obj].mesh, top_inner(0)) = Mm3(4690)

----------------------------------------------------------------------------
\* extents of a primitive along x and y
XExtent(o) == (o.size[1] * o.scale[1]) \div Mm3(1000)
YExtent(o) == (o.size[2] * o.scale[2]) \div Mm3(1000)

\* the cutout prisms: the cross objects in the scene and the operands of the
\* subtractions already applied to the cylinder
Cutters ==
    { objects[n] : n \in {stem.v_cross, stem.h_cross} \cap DOMAIN objects }
    \cup (IF CylinderExists
          THEN { Cylinder.applied[k].operand[1] :
                   k \in { j \in 1..Len(Cylinder.applied) :
                             /\ Cylinder.applied[j].modifier.operation = "DIFFERENCE"
                             /\ Len(Cylinder.applied[j].operand) = 1 } }
          ELSE {})

\* C19: for CHERRY_MX and every profile and row both cutout prisms, 1.29 x 4.15
\* and 4.15 x 1.29, are centred on the cylinder's axis with the cylinder's
\* centre, are 0.2 mm taller than the cylinder and so reach beyond it at the
\* top and at the bottom, and lie strictly inside the radius 2.8 in
\* cross-section (half arm length 2.075 < 2.8).
C19_CutoutPrisms ==
    CylinderExists =>
        /\ \A c \in Cutters :
              /\ c.kind = "CUBE"
              /\ c.location = Cylinder.location
              /\ c.location[1] = 0 /\ c.location[2] = 0
              /\ ZExtent(c) = ZExtent(Cylinder) + Mm3(200)
              /\ ZTop(c) = ZTop(Cylinder) + Mm3(100)
              /\ ZBottom(c) = ZBottom(Cylinder) - Mm3(100)
              /\ << XExtent(c), YExtent(c) >>
                    \in { << Mm3(1290), Mm3(4150) >>, << Mm3(4150), Mm3(1290) >> }
              /\ 2 * Radius(Cylinder) > XExtent(c)
              /\ 2 * Radius(Cylinder) > YExtent(c)
              /\ XExtent(c) * XExtent(c) + YExtent(c) * YExtent(c)
                    < (2 * Radius(Cylinder)) * (2 * Radius(Cylinder))
        /\ Radius(Cylinder) = Mm3(2800)
        /\ stem.v_cross \in DOMAIN objects =>
              << XExtent(objects[stem.v_cross]), YExtent(objects[stem.v_cross]) >>
                 = << Mm3(1290), Mm3(4150) >>
        /\ stem.h_cross \in DOMAIN objects =>
              << XExtent(objects[stem.h_cross]), YExtent(objects[stem.h_cross]) >>
                 = << Mm3(4150), Mm3(1290) >>
        /\ pc \in {"remove_crosses", "union_mod", "apply_union", "remove_stem"} =>
              { << XExtent(c), YExtent(c) >> : c \in Cutters }
                 = { << Mm3(1290), Mm3(4150) >>, << Mm3(4150), Mm3(1290) >> }

C19_Witness ==
    /\ pc = "remove_crosses"
    /\ CylinderExists
    /\ args.profile_type = "OEM"
    /\ args.profile_row = 2
    /\ Len(Cylinder.applied) = 2
    /\ stem.v_cross \in DOMAIN objects
    /\ stem.h_cross \in DOMAIN objects
    /\ ZExtent(Cylinder) = Mm3(10500)
    /\ ZExtent(objects[stem.v_cross]) = Mm3(10700)
    /\ ZBottom(objects[stem.h_cross]) = Mm3(-100)

----------------------------------------------------------------------------
\* names of the modifiers applied to o
AppliedNames(o) == { o.applied[k].modifier.name : k \in 1..Len(o.applied) }

\* the objects of kind k that a step removes from the scene
Removed(k) == { n \in DOMAIN objects \ DOMAIN objects' : objects[n].kind = k }

\* C20: when a generation with stem CHERRY_MX has returned, no Stem_Cylinder,
\* Cross_Vertical or Cross_Horizontal object remains and no boolean modifier
\* remains on the keycap; the cutters are removed only after both subtractions
\* were applied to the cylinder, and the cylinder only after the union was
\* applied to the keycap.
C20_HelpersDiscarded ==
    [][ /\ (pc' = "done" /\ args'.stem_type = "CHERRY_MX") =>
               /\ StemHelpers(objects') = {}
               /\ DOMAIN objects' = {obj'}
               /\ "BOOLEAN" \notin ModifierTypes(objects'[obj'])
               /\ "Boolean_Stem_Union" \in AppliedNames(objects'[obj'])
        /\ Removed("CUBE") # {} =>
               /\ CylinderExists
               /\ {"Boolean_V", "Boolean_H"} \subseteq AppliedNames(Cylinder)
               /\ "BOOLEAN" \notin ModifierTypes(Cylinder)
               /\ \A n \in Removed("CUBE") :
                     \E k \in 1..Len(Cylinder.applied) :
                        /\ Len(Cylinder.applied[k].operand) = 1
                        /\ Cylinder.applied[k].operand[1].name = n
        /\ Removed("CYLINDER") # {} =>
               /\ Removed("CYLINDER") = {stem.stem_cylinder}
               /\ "Boolean_Stem_Union" \in AppliedNames(objects[obj])
               /\ "BOOLEAN" \notin ModifierTypes(objects[obj])
               /\ \E k \in 1..Len(objects[obj].applied) :
                     /\ objects[obj].applied[k].modifier.operation = "UNION"
                     /\ Len(objects[obj].applied[k].operand) = 1
                     /\ objects[obj].applied[k].operand[1].name = stem.stem_cylinder
                     /\ objects[obj].applied[k].operand[1].applied = Cylinder.applied
      ]_vars

C20_Witness ==
    /\ pc = "done"
    /\ args.stem_type = "CHERRY_MX"
    /\ DOMAIN objects = {"Keycap"}
    /\ "Boolean_Stem_Union" \in AppliedNames(objects["Keycap"])
    /\ \E s \in MergedStems :
          { s.applied[k].modifier.name : k \in 1..Len(s.applied) }
             = {"Boolean_V", "Boolean_H"}

----------------------------------------------------------------------------
\* the directed edges of a face: consecutive vertices of its cycle, in order
DirectedEdges(f) == { << f[k], f[(k % Len(f)) + 1] >> : k \in 1..Len(f) }

\* the faces whose cycle runs through the directed edge d
FacesAlong(m, d) == { k \in 1..Len(m.faces) : d \in DirectedEdges(m.faces[k]) }

\* C21: the face windings of the shell are consistently oriented: a directed
\* edge (a, b) of a face's vertex cycle is in the cycle of that face only, and
\* once the shell is complete the reversed edge (b, a) is in the cycle of
\* exactly one other face.
C21_ConsistentWinding ==
    LET m == Geom
        n == Len(m.faces)
        D == [ k \in 1..n |-> DirectedEdges(m.faces[k]) ]
    IN  \A k \in 1..n :
            \A d \in D[k] :
                /\ \A j \in (1..n) \ {k} : d \notin D[j]
                /\ ShellDone =>
                      /\ << d[2], d[1] >> \notin D[k]
                      /\ Cardinality({ j \in 1..n : << d[2], d[1] >> \in D[j] }) = 1

C21_Witness ==
    /\ pc = "done"
    /\ Len(Geom.faces) = 14
    /\ Cardinality(UNION { DirectedEdges(Geom.faces[k]) : k \in 1..14 }) = 56
    /\ FacesAlong(Geom, << top_inner(3), top_inner(2) >>) = {6}
    /\ FacesAlong(Geom, << top_inner(2), top_inner(3) >>) = {9}
    /\ FaceNormal(Geom, Geom.faces[1]) = << 0, 0, 1 >>

----------------------------------------------------------------------------
\* the modifiers Bake has applied to its object since it started, in the order
\* of their application
BakedSoFar ==
    [ k \in 1..(Len(objects[obj].applied) - Len(caller.before[obj].applied)) |->
        objects[obj].applied[Len(caller.before[obj].applied) + k].modifier ]

\* C22: Bake returns CANCELLED and changes nothing when there is no active
\* object or the active object has no modifiers; otherwise it applies the
\* modifiers one by one in stack order, and it returns FINISHED only when every
\* modifier was applied and the stack is empty, so that a Bake that follows at
\* once is CANCELLED.
C22_Bake ==
    [][ /\ (pc = "idle" /\ result' # result) =>
               /\ result'.status = "CANCELLED"
               /\ ~Bakeable(objects, active)
               /\ UNCHANGED <<props, objects, active, units>>
        /\ (pc = "idle" /\ caller'.name = "bake") =>
               /\ Bakeable(objects, active)
               /\ obj' = active
               /\ UNCHANGED <<props, objects, active, units, result>>
        /\ (pc = "bake_loop" /\ objects' # objects) =>
               /\ objects[obj].modifiers # << >>
               /\ objects'[obj].modifiers = Tail(objects[obj].modifiers)
               /\ objects'[obj].applied[Len(objects'[obj].applied)].modifier
                     = Head(objects[obj].modifiers)
               /\ Len(objects'[obj].applied) = Len(objects[obj].applied) + 1
               /\ DOMAIN objects' = DOMAIN objects
               /\ \A n \in DOMAIN objects \ {obj} : objects'[n] = objects[n]
               /\ objects'[obj].mesh = objects[obj].mesh
        /\ (result' # result /\ result'.status = "FINISHED") =>
               /\ pc = "bake_loop"
               /\ caller.before[obj].modifiers # << >>
               /\ BakedSoFar = caller.before[obj].modifiers
               /\ objects[obj].modifiers = << >>
               /\ objects' = objects
               /\ active' = obj
               /\ ~Bakeable(objects', active')
        /\ (pc = "idle" /\ result.status = "FINISHED" /\ result.op = ops) =>
               /\ caller'.name # "bake"
               /\ result' # result => result'.status = "CANCELLED"
      ]_vars

C22_Witness ==
    /\ pc = "idle"
    /\ result.status = "FINISHED"
    /\ active \in DOMAIN objects
    /\ objects[active].kind = "KEYCAP"
    /\ objects[active].modifiers = << >>
    /\ Len(objects[active].applied) = 2
    /\ objects[active].applied[1].modifier.name = "Bevel_Vert_Mod"
    /\ objects[active].applied[2].modifier.name = "Boolean_Stem_Union"

----------------------------------------------------------------------------
\* the keycap objects of a scene
Keycaps(objs) == { n \in DOMAIN objs : objs[n].kind = "KEYCAP" }

\* C23: whenever no handler is running, the number of keycap objects in the
\* scene equals the number of Generate operations performed.  Generate adds
\* exactly one object and removes none; a property change replaces only the
\* object named exactly Keycap (one removed, one created, every other keycap
\* untouched); a property change when no object is named Keycap creates and
\* removes nothing.
C23_KeycapCount ==
    [][ /\ pc' = "idle" => Cardinality(Keycaps(objects')) = generated'
        /\ (pc = "idle" /\ caller'.name = "generate") =>
               /\ objects' = objects
               /\ generated' = generated + 1
        /\ caller.name = "generate" =>
               /\ Keycaps(objects) \subseteq Keycaps(objects')
               /\ \A n \in Keycaps(objects) \ {obj} : objects'[n] = objects[n]
               /\ generated' = generated
        /\ (caller.name = "generate" /\ pc = "done") =>
               /\ obj \notin DOMAIN caller.before
               /\ Keycaps(objects) = Keycaps(caller.before) \cup {obj}
               /\ Cardinality(Keycaps(objects)) = Cardinality(Keycaps(caller.before)) + 1
        /\ (pc = "idle" /\ caller'.name = "update_keycap") =>
               /\ "Keycap" \in DOMAIN objects
               /\ DOMAIN objects' = DOMAIN objects \ {"Keycap"}
               /\ \A n \in DOMAIN objects' : objects'[n] = objects[n]
               /\ generated' = generated
        /\ caller.name = "update_keycap" =>
               /\ \A n \in Keycaps(objects) \ {"Keycap"} :
                     n \in DOMAIN objects' /\ objects'[n] = objects[n]
               /\ Keycaps(objects') \subseteq Keycaps(caller.before)
               /\ generated' = generated
        /\ (caller.name = "update_keycap" /\ pc = "done") =>
               /\ obj = "Keycap"
               /\ Keycaps(objects) = Keycaps(caller.before)
               /\ \A n \in Keycaps(objects) \ {"Keycap"} : objects[n] = caller.before[n]
        /\ ( /\ pc = "idle"
             /\ "Keycap" \notin DOMAIN objects
             /\ \E prop \in KeycapProperties : props'[prop] # props[prop] ) =>
               /\ objects' = objects
               /\ pc' = "idle"
               /\ generated' = generated
      ]_vars

C23_Witness ==
    /\ pc = "idle"
    /\ generated = 2
    /\ raised = NoError
    /\ Keycaps(objects) = {"Keycap", "Keycap.001"}
    /\ DOMAIN objects = {"Keycap", "Keycap.001"}
    /\ props.width = "2"
    /\ RectWidth(objects["Keycap"].mesh, base_outer(0)) = Mm3(36000)
    /\ RectWidth(objects["Keycap.001"].mesh, base_outer(0)) = Mm3(18000)

----------------------------------------------------------------------------
\* the names of the modifiers on the stack of o
ModifierNames(o) == { o.modifiers[k].name : k \in 1..Len(o.modifiers) }

\* the width of the modifier Bevel_Vert_Mod of o
BevelWidthOf(o) ==
    LET k == CHOOSE j \in 1..Len(o.modifiers) : o.modifiers[j].name = "Bevel_Vert_Mod"
    IN  o.modifiers[k].width

\* C24: a change of bevel_vertical creates, deletes and regenerates no object
\* and touches no mesh; it only sets the width of the modifier named
\* Bevel_Vert_Mod on the active object to the new value, and it changes
\* nothing but the property when there is no active object or the active
\* object has no such modifier.
C24_BevelChangeFrame ==
    [][ props'.bevel_vertical # props.bevel_vertical =>
          /\ pc = "idle" /\ pc' = "idle"
          /\ props' = [ props EXCEPT !.bevel_vertical = props'.bevel_vertical ]
          /\ DOMAIN objects' = DOMAIN objects
          /\ UNCHANGED <<active, args, obj, dims, bm, i, stem, raised, caller, units,
                         result, generated>>
          /\ \A n \in DOMAIN objects \ {active} : objects'[n] = objects[n]
          /\ \A n \in DOMAIN objects :
                /\ objects'[n].mesh = objects[n].mesh
                /\ [ objects'[n] EXCEPT !.modifiers = objects[n].modifiers ] = objects[n]
          /\ active \in DOMAIN objects =>
                /\ Len(objects'[active].modifiers) = Len(objects[active].modifiers)
                /\ \A k \in 1..Len(objects[active].modifiers) :
                      objects'[active].modifiers[k]
                         = IF objects[active].modifiers[k].name = "Bevel_Vert_Mod"
                           THEN [ objects[active].modifiers[k]
                                    EXCEPT !.width = props'.bevel_vertical ]
                           ELSE objects[active].modifiers[k]
          /\ ( \/ active \notin DOMAIN objects
               \/ "Bevel_Vert_Mod" \notin ModifierNames(objects[active]) ) =>
                objects' = objects
      ]_vars

C24_Witness ==
    /\ pc = "idle"
    /\ props.bevel_vertical = Mm3(500)
    /\ active = "Keycap.001"
    /\ DOMAIN objects = {"Keycap", "Keycap.001"}
    /\ "Bevel_Vert_Mod" \in ModifierNames(objects["Keycap"])
    /\ "Bevel_Vert_Mod" \in ModifierNames(objects["Keycap.001"])
    /\ BevelWidthOf(objects["Keycap.001"]) = Mm3(500)
    /\ BevelWidthOf(objects["Keycap"]) = Mm3(1500)

============================================================================
